---- MODULE Spec2Model ----
(***************************************************************************)
(* State-machine model of the AdBanner React component                     *)
(* (src/unnamed/part_001): the serve-ad fetch effect, the click handler    *)
(* with its track-click request, and the render function.                  *)
(*                                                                         *)
(* One action per handler step.  An async handler is split at its awaits:  *)
(* the synchronous part up to the fetch() call is one action, the          *)
(* continuation that runs when the response arrives is another.  The two   *)
(* awaits of each handler (fetch, response.json()) touch no component      *)
(* state in between, so the continuation is taken in one step whose input  *)
(* is the whole outcome of the request.                                    *)
(*                                                                         *)
(* The sub-renderers HtmlAd and RichCardAd (same file) and the landing     *)
(* page App (src/src/App.tsx) are separate components with no state in     *)
(* common with AdBanner; each has its own variables and its own            *)
(* specification, in which the other components' variables stay at their   *)
(* initial values.                                                         *)
(***************************************************************************)
EXTENDS Integers, Sequences, FiniteSets

\* ------------------------------------------------------------------ bounds
MaxEvents == 2      \* events after the mount: prop changes plus clicks
MaxElems == 1       \* elements in an html_content payload
MaxNameLen == 4     \* characters in an icon name
MaxSubmits == 2     \* submissions of the signup form
MaxPolls == 1       \* firings of the signup-count refresh interval
MaxTicks == 3       \* firings of the countdown interval

\* ------------------------------------------------------------- prop values
Sites == {"oasara", "freedomforge"}
Zones == {"FOOTER", "HEADER"}
\* supabaseUrl / supabaseKey after defaulting; "" is the falsy (missing) value
Urls  == {"", "https://ads"}
Keys  == {"", "anon-key"}

\* ---------------------------------------------------------------- ad data
NoAd == [null |-> TRUE]

Formats == {"image", "text_card", "rich_card", "html", "video"}

MkAd(f) == [creative_id |-> "cr-" \o f, campaign_id |-> "ca-" \o f,
            format |-> f, click_url |-> "https://dest/" \o f]

Ads == {MkAd(f) : f \in Formats}

Pending == [kind |-> "pending"]

\* Outcomes of GET serve-ad: fetch() rejects, a response with ok = FALSE,
\* a response whose body is not JSON, a response {ad: null}, a response {ad}.
FetchOutcomes ==
    {[kind |-> "reject", status |-> 0, ad |-> NoAd]}
    \cup {[kind |-> "http", status |-> s, ad |-> NoAd] : s \in {404, 500}}
    \cup {[kind |-> "badjson", status |-> 200, ad |-> NoAd]}
    \cup {[kind |-> "json", status |-> 200, ad |-> a] : a \in Ads \cup {NoAd}}

\* Outcomes of POST track-click: fetch() rejects, or a response with an ok
\* flag and a body that is not JSON, the JSON value null, or a JSON object
\* whose redirect_url is absent/empty ("") or a URL.
TrackBodies ==
    {[json |-> "invalid", redirect_url |-> ""],
     [json |-> "null", redirect_url |-> ""],
     [json |-> "object", redirect_url |-> ""],
     [json |-> "object", redirect_url |-> "https://redirect"]}

TrackOutcomes ==
    {[kind |-> "reject", ok |-> FALSE, body |-> [json |-> "invalid", redirect_url |-> ""]]}
    \cup {[kind |-> "response", ok |-> o, body |-> b] : o \in BOOLEAN, b \in TrackBodies}

VARIABLES
    mounted,        \* the mount effect has run
    site, zone, supabaseUrl, supabaseKey, fallback,    \* props
    ad, loading, error,                                \* useState cells
    requests,       \* serve-ad requests issued, in order
    responses,      \* responses[i]: outcome of requests[i], or Pending
    runs,           \* dependency values of every run of the fetch effect
    clicks,         \* one record per click on the rendered ad
    subAd,          \* the ad prop of a sub-renderer (HtmlAd, RichCardAd)
    dom,            \* what that sub-renderer rendered, or NotRendered
    appMounted,     \* App's signup-count effect has run
    email, name, formLoading, success, formError, signupStats,
                    \* App's useState cells (loading and error of App)
    submits,        \* one record per run of handleSubmit
    polls,          \* get-signup-count requests of the effect in flight
    countRequests,  \* get-signup-count requests issued so far
    clockMounted,   \* App's countdown effect has run
    now,            \* the clock, in ms
    timeLeft,       \* App's timeLeft cell
    ticks           \* firings of the countdown interval so far

adVars == <<mounted, site, zone, supabaseUrl, supabaseKey, fallback,
            ad, loading, error, requests, responses, runs, clicks>>

subVars == <<subAd, dom>>

formVars == <<appMounted, email, name, formLoading, success, formError,
              signupStats, submits, polls, countRequests>>

clockVars == <<clockMounted, now, timeLeft, ticks>>

\* the variables of the components other than AdBanner
notAdVars == <<subVars, formVars, clockVars>>

vars == <<adVars, notAdVars>>

props == <<site, zone, supabaseUrl, supabaseKey, fallback>>

\* ------------------------------------------------------------------ render
ConfiguredUrlOnly(url, key) == url # ""

\* !supabaseUrl || !supabaseKey
Configured(url, key) == url # "" /\ key # ""

\* The three top-level branches of the render function.
View ==
    IF loading THEN "placeholder"
    ELSE IF ad = NoAd THEN (IF fallback THEN "fallback" ELSE "nothing")
    ELSE "ad"

SubRenderersLoose(a) ==
    (IF a.format = "image" THEN {"ImageAd"} ELSE {})
    \cup (IF a.format \in {"text_card", "rich_card"} THEN {"TextCardAd"} ELSE {})
    \cup (IF a.format = "rich_card" THEN {"RichCardAd"} ELSE {})
    \cup (IF a.format = "html" THEN {"HtmlAd"} ELSE {})

\* The four `ad.format === ... && <X/>` children of the container div.
SubRenderers(a) ==
    (IF a.format = "image" THEN {"ImageAd"} ELSE {})
    \cup (IF a.format = "text_card" THEN {"TextCardAd"} ELSE {})
    \cup (IF a.format = "rich_card" THEN {"RichCardAd"} ELSE {})
    \cup (IF a.format = "html" THEN {"HtmlAd"} ELSE {})

\* ------------------------------------------------------------ fetch effect
\* err instanceof Error ? err.message : 'Unknown error'
ErrorMessage(o) ==
    IF o.kind = "reject" THEN "Failed to fetch"
    ELSE IF o.kind = "http" THEN (IF o.status = 404 THEN "HTTP 404" ELSE "HTTP 500")
    ELSE "Unexpected token"

\* The request fetchAd issues for the given dependency values.
ServeAdRequest(s, z, url, key) ==
    [method |-> "GET", url |-> url, site |-> s, zone |-> z, key |-> key]

\* The synchronous part of fetchAd, run by the effect with the rendered props.
FetchAdStart(s, z, url, key) ==
    /\ runs' = Append(runs, [site |-> s, zone |-> z, url |-> url, key |-> key])
    /\ IF ~Configured(url, key)
       THEN /\ loading' = FALSE
            /\ UNCHANGED <<requests, responses>>
       ELSE /\ requests' = Append(requests, ServeAdRequest(s, z, url, key))
            /\ responses' = Append(responses, Pending)
            /\ UNCHANGED loading
    /\ UNCHANGED <<ad, error>>

\* Prop changes and clicks so far (the mount is the first run of the effect).
Events == (Len(runs) - 1) + Len(clicks)

\* First commit: the effect runs once with the initial props.
Mount ==
    /\ ~mounted
    /\ mounted' = TRUE
    /\ FetchAdStart(site, zone, supabaseUrl, supabaseKey)
    /\ UNCHANGED <<props, clicks, notAdVars>>

\* A re-render with a changed dependency re-runs the effect.  The parent
\* changes one of the four dependencies per re-render; the effect only sees
\* that the dependency array differs and reads all four new values.
ChangeProps ==
    /\ mounted
    /\ Events < MaxEvents
    /\ \E s \in Sites, z \in Zones, u \in Urls, k \in Keys :
        /\ Cardinality({j \in 1..4 : <<s, z, u, k>>[j]
                            # <<site, zone, supabaseUrl, supabaseKey>>[j]}) = 1
        /\ site' = s /\ zone' = z /\ supabaseUrl' = u /\ supabaseKey' = k
        /\ FetchAdStart(s, z, u, k)
    /\ UNCHANGED <<mounted, fallback, clicks, notAdVars>>

\* State written by fetchAd's continuation for outcome o.
AdAfter(o) == IF o.kind = "json" /\ o.ad # NoAd THEN o.ad ELSE ad

ErrorAfter(o) == IF o.kind = "json" THEN error ELSE ErrorMessage(o)

\* The continuation of fetchAd for request i: try / catch / finally.
FetchAdResolve ==
    /\ \E i \in DOMAIN requests, o \in FetchOutcomes :
        /\ responses[i] = Pending
        /\ responses' = [responses EXCEPT ![i] = o]
        /\ ad' = AdAfter(o)
        /\ error' = ErrorAfter(o)
        /\ loading' = FALSE
    /\ UNCHANGED <<mounted, props, requests, runs, clicks, notAdVars>>

\* ------------------------------------------------------------ click handler
TrackBodyCampaign(a, s, z) == [creative_id |-> a.campaign_id, site |-> s, zone |-> z]

\* body: JSON.stringify({creative_id: ad.creative_id, site, zone})
TrackBody(a, s, z) == [creative_id |-> a.creative_id, site |-> s, zone |-> z]

\* The fetch() call of handleClick, from the values its closure captured.
TrackRequest(a, s, z, url, key) ==
    [method |-> "POST", url |-> url, key |-> key, body |-> TrackBody(a, s, z)]

\* window.open(url, '_blank', 'noopener,noreferrer')
WindowOpen(url) ==
    [url |-> url, target |-> "_blank", features |-> "noopener,noreferrer"]

OpensFinally(o, a) ==
    IF o.kind = "reject" THEN <<WindowOpen(a.click_url)>>
    ELSE IF o.body.json = "invalid" THEN <<WindowOpen(a.click_url)>>
    ELSE IF o.body.json = "null" THEN <<WindowOpen(a.click_url)>>
    ELSE IF o.body.redirect_url # ""
         THEN <<WindowOpen(o.body.redirect_url), WindowOpen(a.click_url)>>
    ELSE <<WindowOpen(a.click_url)>>

\* The window.open calls handleClick's continuation makes for outcome o, with
\* a the ad its closure captured: fetch() rejecting, response.json()
\* rejecting and reading .redirect_url of null all land in the catch block;
\* response.ok is never read.
Opens(o, a) ==
    IF o.kind = "reject" THEN <<WindowOpen(a.click_url)>>
    ELSE IF o.body.json = "invalid" THEN <<WindowOpen(a.click_url)>>
    ELSE IF o.body.json = "null" THEN <<WindowOpen(a.click_url)>>
    ELSE IF o.body.redirect_url # "" THEN <<WindowOpen(o.body.redirect_url)>>
    ELSE <<>>

\* onClick of the rendered sub-component: `if (!ad) return`, then
\* e.preventDefault() and the track-click fetch().
HandleClick ==
    /\ mounted
    /\ Events < MaxEvents
    /\ View = "ad"
    /\ SubRenderers(ad) # {}
    /\ ad # NoAd
    /\ clicks' = Append(clicks,
            [shown |-> ad, site |-> site, zone |-> zone,
             defaultPrevented |-> TRUE,
             posts |-> <<TrackRequest(ad, site, zone, supabaseUrl, supabaseKey)>>,
             response |-> Pending,
             opens |-> <<>>])
    /\ UNCHANGED <<mounted, props, ad, loading, error, requests, responses, runs,
                   notAdVars>>

\* The continuation of handleClick for click c once track-click settles.
TrackResolve ==
    /\ \E c \in DOMAIN clicks, o \in TrackOutcomes :
        /\ clicks[c].response = Pending
        /\ clicks' = [clicks EXCEPT ![c].response = o,
                                    ![c].opens = Opens(o, clicks[c].shown)]
    /\ UNCHANGED <<mounted, props, ad, loading, error, requests, responses, runs,
                   notAdVars>>

\* ----------------------------------------------------------- sub-renderers
NotRendered == [rendered |-> FALSE]

\* No sub-renderer under study is mounted.
SubIdle == subAd = NoAd /\ dom = NotRendered

\* App's state after its first render, before its effects ran.
FormInit ==
    /\ appMounted = FALSE
    /\ email = "" /\ name = ""
    /\ formLoading = FALSE /\ success = FALSE /\ formError = ""
    /\ signupStats = [null |-> TRUE]
    /\ submits = <<>> /\ polls = 0 /\ countRequests = 0

\* Times are in ms from an origin three days before the launch.
MsPerDay == 1000 * 60 * 60 * 24

LAUNCH_DATE == 3 * MsPerDay

ZeroTimeLeft == [days |-> 0, hours |-> 0, minutes |-> 0, seconds |-> 0]

\* App's countdown state after its first render, the clock at time t.
ClockInit(t) ==
    /\ clockMounted = FALSE /\ now = t
    /\ timeLeft = ZeroTimeLeft /\ ticks = 0

\* The AdBanner of Spec, not mounted and never acting.
AdIdle ==
    /\ mounted = FALSE
    /\ site = "oasara" /\ zone = "FOOTER"
    /\ supabaseUrl = "https://ads" /\ supabaseKey = "anon-key"
    /\ fallback = FALSE
    /\ ad = NoAd /\ loading = TRUE /\ error = "null"
    /\ requests = <<>> /\ responses = <<>> /\ runs = <<>>
    /\ clicks = <<>>

Init ==
    /\ mounted = FALSE
    \* no operator singles out a site or a zone value: one initial pair
    \* stands for all four
    /\ site = "oasara" /\ zone = "FOOTER"
    /\ supabaseUrl \in Urls /\ supabaseKey \in Keys
    /\ fallback \in BOOLEAN
    /\ ad = NoAd /\ loading = TRUE /\ error = "null"
    /\ requests = <<>> /\ responses = <<>> /\ runs = <<>>
    /\ clicks = <<>>
    /\ SubIdle /\ FormInit /\ ClockInit(0)

Next ==
    \/ Mount
    \/ ChangeProps
    \/ FetchAdResolve
    \/ HandleClick
    \/ TrackResolve

Spec == Init /\ [][Next]_vars

\* ------------------------------------------------------------------ HtmlAd
\* Markup is a sequence of elements, each a tag name with the set of its
\* attribute names.  Payloads mix allow-listed and other tags and attributes.
HtmlTags == {"div", "a", "script", "iframe"}

HtmlAttrs == {"href", "onclick", "data-track", "aria-label"}

Elements == [tag : HtmlTags, attrs : SUBSET HtmlAttrs]

Markups == UNION {[1..n -> Elements] : n \in 0..MaxElems}

\* ad.html_content: absent (undefined) or a string of markup; the empty
\* string is the empty sequence.
HtmlContents ==
    {[present |-> FALSE, markup |-> <<>>]}
    \cup {[present |-> TRUE, markup |-> m] : m \in Markups}

ALLOWED_TAGS == {"div", "span", "p", "a", "img", "strong", "em", "br"}

ALLOWED_ATTRS == {"class", "style", "href", "src", "alt", "target", "rel"}

\* DOMPurify's tests for data-* and aria-* attribute names, on the attribute
\* names of HtmlAttrs.
IsDataAttr(n) == n \in {"data-track"}

IsAriaAttr(n) == n \in {"aria-label"}

\* DOMPurify.sanitize(html, cfg) of the dompurify package, for a cfg that sets
\* ALLOWED_TAGS and ALLOWED_ATTR and nothing else: an element whose tag is not
\* in ALLOWED_TAGS is removed; of a kept element's attributes, those named
\* data-* or aria-* stay (ALLOW_DATA_ATTR and ALLOW_ARIA_ATTR default to true
\* and are tested before the allow-list), the others stay only if listed in
\* ALLOWED_ATTR.
DOMPurifySanitize(html, cfg) ==
    LET keep == SelectSeq(html, LAMBDA el : el.tag \in cfg.ALLOWED_TAGS)
    IN  [i \in DOMAIN keep |->
            [tag |-> keep[i].tag,
             attrs |-> {n \in keep[i].attrs :
                           \/ IsDataAttr(n)
                           \/ IsAriaAttr(n)
                           \/ n \in cfg.ALLOWED_ATTR}]]

sanitizeHtml(html) ==
    DOMPurifySanitize(html, [ALLOWED_TAGS |-> ALLOWED_TAGS,
                             ALLOWED_ATTR |-> ALLOWED_ATTRS])

\* ad.html_content ? sanitizeHtml(ad.html_content) : ''
sanitizedHtml(a) ==
    IF a.html_content.present /\ a.html_content.markup # <<>>
    THEN sanitizeHtml(a.html_content.markup)
    ELSE <<>>

HtmlAds == {[format |-> "html", html_content |-> h] : h \in HtmlContents}

\* HtmlAd renders: dangerouslySetInnerHTML={{ __html: sanitizedHtml }}
HtmlAd ==
    /\ dom = NotRendered
    /\ subAd \in HtmlAds
    /\ dom' = [rendered |-> TRUE, innerHTML |-> sanitizedHtml(subAd)]
    /\ UNCHANGED <<adVars, subAd, formVars, clockVars>>

InitHtml == AdIdle /\ FormInit /\ ClockInit(0) /\ subAd \in HtmlAds /\ dom = NotRendered

NextHtml == HtmlAd

SpecHtml == InitHtml /\ [][NextHtml]_vars

\* -------------------------------------------------------------- RichCardAd
\* Strings are sequences of characters, so that the case conversion is
\* computed.  Icon names are drawn from two letters, one of them also in
\* upper case, and the hyphen.
Chars == {"s", "c", "S", "-"}

IconNames == UNION {[1..n -> Chars] : n \in 0..MaxNameLen}

\* The exports of lucide-react looked up by name ("S" for Shield, "C" for
\* Check: ShieldCheck, Shield, Check, ...).
LucideIcons == {<<"S", "C">>, <<"S">>, <<"C">>, <<"S", "c">>, <<"C", "s", "s">>}

\* String.prototype.toUpperCase on one character.
toUpperCase(ch) == IF ch = "s" THEN "S" ELSE IF ch = "c" THEN "C" ELSE ch

RECURSIVE split(_)
\* iconName.split('-')
split(str) ==
    IF \A i \in DOMAIN str : str[i] # "-"
    THEN <<str>>
    ELSE LET i == CHOOSE j \in DOMAIN str :
                      str[j] = "-" /\ \A k \in 1..(j - 1) : str[k] # "-"
         IN  <<SubSeq(str, 1, i - 1)>> \o split(SubSeq(str, i + 1, Len(str)))

capitalizeNone(word) == word

\* word.charAt(0).toUpperCase() + word.slice(1)
capitalize(word) ==
    IF word = <<>> THEN <<>> ELSE <<toUpperCase(word[1])>> \o Tail(word)

RECURSIVE join(_)
\* .join('')
join(words) ==
    IF words = <<>> THEN <<>> ELSE Head(words) \o join(Tail(words))

pascalCase(iconName) ==
    LET words == split(iconName)
    IN  join([i \in DOMAIN words |-> capitalize(words[i])])

NoIcon == [found |-> FALSE, component |-> <<>>]

\* getLucideIcon: null for an empty name, else LucideIcons[pascalCase] || null
getLucideIcon(iconName) ==
    IF iconName = <<>> THEN NoIcon
    ELSE IF pascalCase(iconName) \in LucideIcons
         THEN [found |-> TRUE, component |-> pascalCase(iconName)]
         ELSE NoIcon

\* ad.icon ? getLucideIcon(ad.icon) : null
IconComponent(a) ==
    IF a.icon.present /\ a.icon.name # <<>>
    THEN getLucideIcon(a.icon.name)
    ELSE NoIcon

RichAds ==
    {[format |-> "rich_card", icon |-> [present |-> FALSE, name |-> <<>>]]}
    \cup {[format |-> "rich_card", icon |-> [present |-> TRUE, name |-> n]] :
              n \in IconNames}

\* RichCardAd renders the card, with the icon block when IconComponent is set.
RichCardAd ==
    /\ dom = NotRendered
    /\ subAd \in RichAds
    /\ dom' = [rendered |-> TRUE, card |-> TRUE, threw |-> FALSE,
               iconBlock |-> IconComponent(subAd)]
    /\ UNCHANGED <<adVars, subAd, formVars, clockVars>>

InitIcon == AdIdle /\ FormInit /\ ClockInit(0) /\ subAd \in RichAds /\ dom = NotRendered

NextIcon == RichCardAd

SpecIcon == InitIcon /\ [][NextIcon]_vars

\* ------------------------------------------------------ App: the signup form
Emails == {"", "a@x.io"}

Names == {"", "Ann"}

NoStats == [null |-> TRUE]

\* Bodies of get-signup-count with success true (the whole body is stored).
Stats == {[success |-> TRUE, count |-> c] : c \in {"41", "42"}}

DefaultMessage == "Failed to join early access. Please try again."

UnexpectedMessage == "An unexpected error occurred. Please try again."

\* Outcomes of POST early-access-signup: fetch() rejects, or a response whose
\* body is not JSON, is the JSON value null, or is an object {success,
\* message?} (message "" when absent).
SignupOutcomes ==
    {[kind |-> k, success |-> FALSE, message |-> ""] : k \in {"reject", "invalid", "null"}}
    \cup {[kind |-> "object", success |-> b, message |-> m] :
              b \in BOOLEAN, m \in {"", "Email already registered"}}

\* Outcomes of GET get-signup-count, likewise.
CountOutcomes ==
    {[kind |-> k, success |-> FALSE, stats |-> NoStats] : k \in {"reject", "invalid", "null"}}
    \cup {[kind |-> "object", success |-> FALSE, stats |-> NoStats]}
    \cup {[kind |-> "object", success |-> TRUE, stats |-> st] : st \in Stats}

\* fetch() or response.json() rejects, or data.success reads a property of null
Throws(o) == o.kind \in {"reject", "invalid", "null"}

\* fetchSignupCount's continuation: setSignupStats(data) if data.success; a
\* thrown error is caught and logged.
StatsAfter(o) == IF ~Throws(o) /\ o.success THEN o.stats ELSE signupStats

\* disabled={loading || !email}
SubmitDisabledEmailOnly == email = ""

SubmitDisabled == formLoading \/ email = ""

\* The form is rendered only when success is false.
FormShown == ~success

\* The effect: fetchSignupCount() on mount, and the 5-minute interval.
AppMount ==
    /\ ~appMounted
    /\ appMounted' = TRUE
    /\ polls' = polls + 1
    /\ countRequests' = countRequests + 1
    /\ UNCHANGED <<email, name, formLoading, success, formError, signupStats, submits>>
    /\ UNCHANGED <<adVars, subVars, clockVars>>

\* get-signup-count requests issued by the success branch of handleSubmit
Refreshes == Cardinality({i \in DOMAIN submits : submits[i].refresh # "none"})

\* setInterval(fetchSignupCount, 5 * 60 * 1000) fires.
PollTick ==
    /\ appMounted
    /\ countRequests - Refreshes <= MaxPolls
    /\ polls' = polls + 1
    /\ countRequests' = countRequests + 1
    /\ UNCHANGED <<appMounted, email, name, formLoading, success, formError,
                   signupStats, submits>>
    /\ UNCHANGED <<adVars, subVars, clockVars>>

\* A get-signup-count request of the effect settles.
PollResolve ==
    /\ polls > 0
    /\ \E o \in CountOutcomes : signupStats' = StatsAfter(o)
    /\ polls' = polls - 1
    /\ UNCHANGED <<appMounted, email, name, formLoading, success, formError,
                   submits, countRequests>>
    /\ UNCHANGED <<adVars, subVars, clockVars>>

\* onChange of the email input
SetEmail ==
    /\ appMounted /\ FormShown
    /\ \E v \in Emails : v # email /\ email' = v
    /\ UNCHANGED <<appMounted, name, formLoading, success, formError, signupStats,
                   submits, polls, countRequests>>
    /\ UNCHANGED <<adVars, subVars, clockVars>>

\* onChange of the name input
SetName ==
    /\ appMounted /\ FormShown
    /\ \E v \in Names : v # name /\ name' = v
    /\ UNCHANGED <<appMounted, email, formLoading, success, formError, signupStats,
                   submits, polls, countRequests>>
    /\ UNCHANGED <<adVars, subVars, clockVars>>

\* body: JSON.stringify({ email, name })
SignupBody == [email |-> email, name |-> name]

\* handleSubmit up to its fetch(): the form is submitted through its submit
\* button, which must be shown and enabled.
HandleSubmit ==
    /\ appMounted /\ FormShown /\ ~SubmitDisabled
    /\ Len(submits) < MaxSubmits
    /\ formLoading' = TRUE
    /\ formError' = ""
    /\ submits' = Append(submits,
            [body |-> SignupBody, response |-> Pending,
             refresh |-> "none", finished |-> FALSE])
    /\ UNCHANGED <<appMounted, email, name, success, signupStats, polls, countRequests>>
    /\ UNCHANGED <<adVars, subVars, clockVars>>

ErrorAfterSignupRaw(o) ==
    IF Throws(o) THEN UnexpectedMessage
    ELSE IF o.success THEN formError
    ELSE o.message

\* setError in handleSubmit: data.message || default, or the catch block's text
ErrorAfterSignup(o) ==
    IF Throws(o) THEN UnexpectedMessage
    ELSE IF o.success THEN formError
    ELSE IF o.message # "" THEN o.message ELSE DefaultMessage

RefreshAfterNone(o) == "none"

\* await fetchSignupCount() in the success branch
RefreshAfter(o) == IF ~Throws(o) /\ o.success THEN "pending" ELSE "none"

\* handleSubmit's continuation when the signup request settles: the success
\* branch stops at `await fetchSignupCount()`, the others run through finally.
SignupResolve ==
    /\ \E i \in DOMAIN submits, o \in SignupOutcomes :
        /\ submits[i].response = Pending
        /\ LET ok == ~Throws(o) /\ o.success
           IN  /\ submits' = [submits EXCEPT ![i].response = o,
                                             ![i].refresh = RefreshAfter(o),
                                             ![i].finished = (RefreshAfter(o) = "none")]
               /\ success' = (IF ok THEN TRUE ELSE success)
               /\ email' = (IF ok THEN "" ELSE email)
               /\ name' = (IF ok THEN "" ELSE name)
               /\ formError' = ErrorAfterSignup(o)
               /\ countRequests' =
                     (IF RefreshAfter(o) = "pending" THEN countRequests + 1
                      ELSE countRequests)
               /\ formLoading' = (IF RefreshAfter(o) = "pending" THEN formLoading ELSE FALSE)
    /\ UNCHANGED <<appMounted, signupStats, polls>>
    /\ UNCHANGED <<adVars, subVars, clockVars>>

\* The awaited fetchSignupCount() settles; handleSubmit runs its finally.
RefreshResolve ==
    /\ \E i \in DOMAIN submits, o \in CountOutcomes :
        /\ submits[i].refresh = "pending"
        /\ submits' = [submits EXCEPT ![i].refresh = "done", ![i].finished = TRUE]
        /\ signupStats' = StatsAfter(o)
        /\ formLoading' = FALSE
    /\ UNCHANGED <<appMounted, email, name, success, formError, polls, countRequests>>
    /\ UNCHANGED <<adVars, subVars, clockVars>>

\* "Sign up another email": onClick={() => setSuccess(false)}
SignUpAnother ==
    /\ appMounted /\ success
    /\ success' = FALSE
    /\ UNCHANGED <<appMounted, email, name, formLoading, formError, signupStats,
                   submits, polls, countRequests>>
    /\ UNCHANGED <<adVars, subVars, clockVars>>

InitApp == AdIdle /\ SubIdle /\ FormInit /\ ClockInit(0)

NextApp ==
    \/ AppMount
    \/ PollTick
    \/ PollResolve
    \/ SetEmail
    \/ SetName
    \/ HandleSubmit
    \/ SignupResolve
    \/ RefreshResolve
    \/ SignUpAnother

SpecApp == InitApp /\ [][NextApp]_vars

\* Every request the page sends is eventually answered or fails.
SpecAppFair ==
    /\ SpecApp
    /\ WF_vars(SignupResolve)
    /\ WF_vars(RefreshResolve)

\* -------------------------------------------------------- App: the countdown
\* Remaining times (ms) at page load: around each unit boundary, a mixed
\* value, and at or after the launch.
LoadOffsets ==
    {1, 999, 1000, 1001, 59999, 60000, 3599999, 3600000,
     MsPerDay - 1, MsPerDay, MsPerDay + 1,
     2 * MsPerDay + 3 * 3600000 + 4 * 60000 + 5 * 1000 + 6,
     0, -1, -5000}

\* Time between two firings of setInterval(calculateTimeLeft, 1000): the
\* nominal second, a late timer, and a throttled background tab.
TickSteps == {1000, 1017, 61000, 3600000}

timeLeftNoModulo(difference) ==
    [days |-> difference \div (1000 * 60 * 60 * 24),
     hours |-> difference \div (1000 * 60 * 60),
     minutes |-> (difference % (1000 * 60 * 60)) \div (1000 * 60),
     seconds |-> (difference % (1000 * 60)) \div 1000]

\* The object calculateTimeLeft passes to setTimeLeft, for difference > 0
\* (Math.floor of a quotient of non-negative integers is \div).
timeLeftFor(difference) ==
    [days |-> difference \div (1000 * 60 * 60 * 24),
     hours |-> (difference % (1000 * 60 * 60 * 24)) \div (1000 * 60 * 60),
     minutes |-> (difference % (1000 * 60 * 60)) \div (1000 * 60),
     seconds |-> (difference % (1000 * 60)) \div 1000]

\* calculateTimeLeft at clock time t
calculateTimeLeft(t) ==
    LET difference == LAUNCH_DATE - t
    IN  timeLeft' = IF difference > 0 THEN timeLeftFor(difference) ELSE timeLeft

\* The countdown effect: calculateTimeLeft() and setInterval.
CountdownMount ==
    /\ ~clockMounted
    /\ clockMounted' = TRUE
    /\ calculateTimeLeft(now)
    /\ UNCHANGED <<now, ticks>>
    /\ UNCHANGED <<adVars, subVars, formVars>>

\* The interval fires after some time has passed.
Tick ==
    /\ clockMounted
    /\ ticks < MaxTicks
    /\ \E step \in TickSteps :
          /\ now' = now + step
          /\ calculateTimeLeft(now + step)
    /\ ticks' = ticks + 1
    /\ UNCHANGED clockMounted
    /\ UNCHANGED <<adVars, subVars, formVars>>

InitCountdown ==
    /\ AdIdle /\ SubIdle /\ FormInit
    /\ \E d \in LoadOffsets : ClockInit(LAUNCH_DATE - d)

NextCountdown ==
    \/ CountdownMount
    \/ Tick

SpecCountdown == InitCountdown /\ [][NextCountdown]_vars

\* ------------------------------------------------------------------ claims
Failed(o) == o.kind \in {"reject", "http", "badjson"}

FallbackOrNothing == IF fallback THEN "fallback" ELSE "nothing"

Newest == Len(requests)

\* C1: a serve-ad response that resolves after a newer request has started
\* changes none of ad, loading and error.
C1_StaleResponseIgnored ==
    [][\A i \in DOMAIN requests :
          (i < Newest /\ responses[i] = Pending /\ responses'[i] # Pending)
              => UNCHANGED <<ad, loading, error>>]_vars

\* The track-click call failed: network rejection, non-success HTTP status,
\* or a body that does not parse.
TrackFailed(o) == o.kind = "reject" \/ ~o.ok \/ o.body.json = "invalid"

\* C2: every click whose track-click call failed opens the clicked ad's own
\* click_url, exactly once.
C2_TrackingFailureOpensClickUrl ==
    \A c \in DOMAIN clicks :
        (clicks[c].response # Pending /\ TrackFailed(clicks[c].response))
            => clicks[c].opens =
                  <<[url |-> clicks[c].shown.click_url, target |-> "_blank",
                     features |-> "noopener,noreferrer"]>>

\* C3: when the newest serve-ad request completes, the ad held is that
\* request's result: its ad, or no ad when it failed or returned none.
C3_NewestResultReplacesAd ==
    [][(Newest > 0 /\ requests' = requests
            /\ responses[Newest] = Pending /\ responses'[Newest] # Pending)
          => ad' = responses'[Newest].ad]_vars

\* C4: a click whose track-click response is successful and carries a
\* redirect URL opens exactly that URL and not the ad's click_url; no click
\* opens more than one window.
C4_TrackingSuccessOpensRedirect ==
    \A c \in DOMAIN clicks :
        /\ Len(clicks[c].opens) <= 1
        /\ (/\ clicks[c].response # Pending
            /\ clicks[c].response.kind = "response"
            /\ clicks[c].response.ok
            /\ clicks[c].response.body.json = "object"
            /\ clicks[c].response.body.redirect_url # "")
            => clicks[c].opens =
                  <<[url |-> clicks[c].response.body.redirect_url,
                     target |-> "_blank", features |-> "noopener,noreferrer"]>>

C4_Witness ==
    \E c \in DOMAIN clicks :
        /\ clicks[c].response # Pending
        /\ clicks[c].response.kind = "response"
        /\ clicks[c].response.ok
        /\ clicks[c].response.body.redirect_url = "https://redirect"
        /\ Len(clicks[c].opens) = 1
        /\ clicks[c].opens[1].url = "https://redirect"
        /\ clicks[c].shown.click_url # "https://redirect"

\* C5: whenever supabaseUrl or supabaseKey is empty, no serve-ad request was
\* issued with such a configuration, loading is false, and the component
\* renders the fallback if supplied and nothing otherwise.
C5_MissingConfigRendersFallback ==
    (mounted /\ (supabaseUrl = "" \/ supabaseKey = ""))
        => /\ \A i \in DOMAIN requests :
                  requests[i].url # "" /\ requests[i].key # ""
           /\ loading = FALSE
           /\ View = FallbackOrNothing

\* C6: after the newest serve-ad request failed (rejection, non-success
\* status, unparseable body) the component renders fallback-or-nothing.
C6_FetchFailureRendersFallback ==
    (Newest > 0 /\ responses[Newest] # Pending /\ Failed(responses[Newest]))
        => View = FallbackOrNothing

\* C7: while the serve-ad request of the current props is in flight, the
\* component renders the placeholder.
C7_PlaceholderWhilePending ==
    (/\ Newest > 0
     /\ responses[Newest] = Pending
     /\ requests[Newest].site = site /\ requests[Newest].zone = zone
     /\ requests[Newest].url = supabaseUrl /\ requests[Newest].key = supabaseKey)
        => View = "placeholder"

\* C8: every click prevents the default navigation and issues exactly one
\* POST track-click carrying the displayed ad's creative_id and the site and
\* zone current at the click; a window is opened only once that call settled.
C8_ClickTracksThenOpens ==
    \A c \in DOMAIN clicks :
        /\ clicks[c].defaultPrevented
        /\ Len(clicks[c].posts) = 1
        /\ clicks[c].posts[1].method = "POST"
        /\ clicks[c].posts[1].body =
              [creative_id |-> clicks[c].shown.creative_id,
               site |-> clicks[c].site, zone |-> clicks[c].zone]
        /\ (clicks[c].opens # <<>> => clicks[c].response # Pending)

\* a settled click on an ad kept from an earlier site or zone
C8_Witness ==
    \E c \in DOMAIN clicks :
        /\ clicks[c].response # Pending
        /\ clicks[c].opens # <<>>
        /\ Len(runs) > 1
        /\ \E i \in DOMAIN requests :
              /\ responses[i] # Pending
              /\ responses[i].ad = clicks[c].shown
              /\ <<requests[i].site, requests[i].zone>>
                    # <<clicks[c].site, clicks[c].zone>>

\* C9 as stated: one serve-ad request per run of the effect (the mount and
\* every change of site, zone or endpoint configuration).
C9_OneRequestPerRun == Len(requests) = Len(runs)

\* C9 amended: one serve-ad request per run of the effect whose endpoint URL
\* and key are both non-empty, none for the other runs, and no request
\* outside a run (no retry after a failure or an empty result).
C9_OneRequestPerConfiguredRun ==
    Len(requests) =
        Cardinality({i \in DOMAIN runs : runs[i].url # "" /\ runs[i].key # ""})

C9_Witness ==
    /\ Len(runs) = 3 /\ Len(requests) = 2
    /\ responses[1] # Pending /\ Failed(responses[1])
    /\ responses[2] # Pending /\ responses[2].kind = "json" /\ responses[2].ad = NoAd

\* The sub-renderer the format names, none for an unrecognised format.
Expected(f) ==
    CASE f = "image" -> {"ImageAd"}
      [] f = "text_card" -> {"TextCardAd"}
      [] f = "rich_card" -> {"RichCardAd"}
      [] f = "html" -> {"HtmlAd"}
      [] OTHER -> {}

\* C10: a stored ad that is rendered gets exactly the sub-renderer its format
\* names when the format is image, text_card, rich_card or html, and no
\* sub-renderer for any other format; never two.
C10_FormatDispatch ==
    View = "ad" =>
        /\ SubRenderers(ad) = Expected(ad.format)
        /\ Cardinality(SubRenderers(ad)) <= 1
        /\ (Cardinality(SubRenderers(ad)) = 1
                <=> ad.format \in {"image", "text_card", "rich_card", "html"})

C10_Witness ==
    /\ View = "ad" /\ ad.format = "rich_card"
    /\ SubRenderers(ad) = {"RichCardAd"}
    /\ \E i \in DOMAIN responses :
          /\ responses[i] # Pending /\ responses[i].ad # NoAd
          /\ responses[i].ad.format = "video"

\* C11: the markup HtmlAd injects is sanitizeHtml(html_content), or the empty
\* string when html_content is absent, and it has no tag outside
\* {div,span,p,a,img,strong,em,br} and no attribute outside
\* {class,style,href,src,alt,target,rel}.
C11_InjectedMarkupAllowListed ==
    dom # NotRendered =>
        /\ dom.innerHTML = (IF subAd.html_content.present
                            THEN sanitizeHtml(subAd.html_content.markup)
                            ELSE <<>>)
        /\ \A i \in DOMAIN dom.innerHTML :
              /\ dom.innerHTML[i].tag
                    \in {"div", "span", "p", "a", "img", "strong", "em", "br"}
              /\ dom.innerHTML[i].attrs
                    \subseteq {"class", "style", "href", "src", "alt", "target", "rel"}

RECURSIVE Pascal(_, _)
\* The identifier a kebab-case name stands for: its characters from position
\* i on, without the hyphens, a character in upper case when it starts the
\* name or follows a hyphen.
Pascal(nm, i) ==
    IF i > Len(nm) THEN <<>>
    ELSE IF nm[i] = "-" THEN Pascal(nm, i + 1)
    ELSE IF i = 1 \/ nm[i - 1] = "-"
         THEN <<toUpperCase(nm[i])>> \o Pascal(nm, i + 1)
    ELSE <<nm[i]>> \o Pascal(nm, i + 1)

\* C14: RichCardAd looks the icon up under the identifier made of the
\* hyphen-delimited words of its name, each with its first character
\* capitalized; an absent or empty name, or one with no registry entry, gives
\* no icon block, and the card is rendered without error.
C14_IconResolution ==
    (dom # NotRendered /\ subAd \in RichAds) =>
        /\ dom.card /\ ~dom.threw
        /\ dom.iconBlock =
              (IF /\ subAd.icon.present
                  /\ subAd.icon.name # <<>>
                  /\ Pascal(subAd.icon.name, 1) \in LucideIcons
               THEN [found |-> TRUE, component |-> Pascal(subAd.icon.name, 1)]
               ELSE [found |-> FALSE, component |-> <<>>])

\* "s-c" is looked up as "SC"
C14_Witness ==
    /\ dom # NotRendered
    /\ subAd \in RichAds
    /\ subAd.icon.name = <<"s", "-", "c">>
    /\ dom.iconBlock = [found |-> TRUE, component |-> <<"S", "C">>]

\* the signup response of submission i arrives in this step
Answered(i) == submits[i].response = Pending /\ submits'[i].response # Pending

\* C12: when a signup response with success true arrives, the form enters the
\* success state, email and name are cleared and a get-signup-count request
\* is issued while loading is still true; loading is cleared only once that
\* request has settled.
C12_SuccessRefreshesBeforeLoadingClears ==
    [][\A i \in DOMAIN submits :
          /\ (Answered(i) /\ submits'[i].response.kind = "object"
                          /\ submits'[i].response.success)
                => /\ success' /\ email' = "" /\ name' = ""
                   /\ countRequests' = countRequests + 1
                   /\ submits'[i].refresh = "pending"
                   /\ formLoading /\ formLoading'
          /\ (submits[i].refresh = "pending" /\ formLoading /\ ~formLoading')
                => submits'[i].refresh = "done"]_vars

C12_Witness ==
    \E i \in DOMAIN submits :
        /\ submits[i].response # Pending
        /\ submits[i].response.success
        /\ submits[i].body.email = "a@x.io" /\ submits[i].body.name = "Ann"
        /\ submits[i].refresh = "pending"
        /\ success /\ email = "" /\ name = "" /\ formLoading

\* C13: a signup response with success false sets the error text to the
\* reported message, or to the default message when none is given, and leaves
\* success false and email and name as they are; a thrown request or parse
\* error sets the 'unexpected error' message; a new submission clears the
\* error.
C13_FailureShowsMessage ==
    [][/\ \A i \in DOMAIN submits :
            /\ (Answered(i) /\ submits'[i].response.kind = "object"
                            /\ ~submits'[i].response.success)
                  => /\ formError' =
                          (IF submits'[i].response.message # ""
                           THEN submits'[i].response.message
                           ELSE "Failed to join early access. Please try again.")
                     /\ ~success' /\ email' = email /\ name' = name
            /\ (Answered(i) /\ submits'[i].response.kind # "object")
                  => formError' = "An unexpected error occurred. Please try again."
       /\ Len(submits') > Len(submits) => formError' = ""]_vars

\* a submission that failed with the default message after an earlier one
\* that threw
C13_Witness ==
    /\ Len(submits) = 2
    /\ submits[1].response # Pending /\ submits[1].response.kind = "reject"
    /\ submits[2].response # Pending /\ submits[2].response.kind = "object"
    /\ ~submits[2].response.success /\ submits[2].response.message = ""
    /\ formError = "Failed to join early access. Please try again."
    /\ ~success /\ email = "a@x.io"

Unfinished == {i \in DOMAIN submits : ~submits[i].finished}

\* C15: loading is true exactly while a submission's handler has not
\* finished; at most one signup request is in flight, the submit control
\* being disabled while loading is true or email is empty; and whenever
\* loading is true it later becomes false, which by the first part is the
\* submission's handler finishing.
C15_LoadingFlag ==
    /\ [](/\ formLoading <=> Unfinished # {}
          /\ Cardinality(Unfinished) <= 1
          /\ Cardinality({i \in DOMAIN submits : submits[i].response = Pending}) <= 1
          /\ (formLoading \/ email = "") => SubmitDisabled)
    /\ formLoading ~> ~formLoading

\* a submission whose count refresh failed has finished with loading false
C15_Witness ==
    \E i \in DOMAIN submits :
        /\ submits[i].finished
        /\ submits[i].refresh = "done"
        /\ signupStats = NoStats
        /\ polls = 0
        /\ ~formLoading
        /\ Len(submits) = 2

\* C16: a run of calculateTimeLeft (at mount or on a tick) with remaining time
\* d > 0 sets days = d div 86400000, hours in 0..23, minutes and seconds in
\* 0..59, with days*86400 + hours*3600 + minutes*60 + seconds = d div 1000;
\* a run with d <= 0 leaves timeLeft unchanged; no field is ever negative, and
\* timeLeft is all zeros until a run with d > 0.
C16_CountdownDecomposition ==
    [][(clockMounted' /\ (~clockMounted \/ ticks' # ticks)) =>
          LET d == (3 * 86400000) - now'
          IN  /\ d > 0 =>
                    /\ timeLeft'.days = d \div 86400000
                    /\ timeLeft'.hours \in 0..23
                    /\ timeLeft'.minutes \in 0..59
                    /\ timeLeft'.seconds \in 0..59
                    /\ timeLeft'.days * 86400 + timeLeft'.hours * 3600
                          + timeLeft'.minutes * 60 + timeLeft'.seconds
                       = d \div 1000
              /\ d <= 0 => timeLeft' = timeLeft
              /\ \A f \in {"days", "hours", "minutes", "seconds"} :
                    timeLeft[f] >= 0 /\ timeLeft'[f] >= 0
              /\ (~clockMounted /\ d <= 0) =>
                    timeLeft' = [days |-> 0, hours |-> 0, minutes |-> 0, seconds |-> 0]
      ]_vars

\* 2 d 3 h 4 min 5 s before the launch, then a tick after the launch keeps
\* the last value
C16_Witness ==
    /\ clockMounted /\ ticks > 0
    /\ now >= LAUNCH_DATE
    /\ timeLeft.seconds > 0

====
